---- MODULE Spec2Model ----
(***************************************************************************)
(* idb-store: promise-returning object-store accessors and a connection    *)
(* manager over the idb wrapper of IndexedDB.                              *)
(*                                                                         *)
(* The module holds three layers:                                          *)
(*   - the storage engine as the sources consume it through ./idb.js       *)
(*     (open requests with their upgrade, connections, one-request         *)
(*     transactions, requests, the key generator);                         *)
(*   - the accessor classes: Store of idb-store.js, StoreRepository of     *)
(*     store-repository.js and the index-aware Store of                    *)
(*     unnamed/part_001 (lines 11-202);                                    *)
(*   - the connection managers: DB of store-repository.js and DB of        *)
(*     idb-store.js, with the static createDatabase and hasSupport.        *)
(* Each class is a set of actions, one per method call and one per promise *)
(* reaction (the callback passed to then).                                 *)
(***************************************************************************)
EXTENDS Integers, Sequences, FiniteSets, TLC

(***************************************************************************)
(* Bounds of the model.                                                    *)
(***************************************************************************)
MaxKey == 2        \* primary keys are 1..MaxKey
MaxVal == 2        \* stored values are 1..MaxVal
MaxCalls == 1      \* accessor calls in flight at once
MaxDbCalls == 2    \* connection-manager calls in flight at once
MaxOpens == 3      \* open requests issued to the engine in one run
MaxVersion == 2    \* database versions are 1..MaxVersion; 0 is no database

Keys == 1..MaxKey
Vals == 1..MaxVal
Slots == 1..MaxCalls
DbSlots == 1..MaxDbCalls
Versions == 1..MaxVersion

\* Errors that the sources produce or let through.  In a record, a result or a
\* promise value the number 0 stands for JavaScript's undefined, and in a promise
\* reference for null.
TypeError == "TypeError"
InvalidStateError == "InvalidStateError"
NotFoundError == "NotFoundError"
OpenError == "OpenError"
AbortError == "AbortError"
VersionError == "VersionError"
ConstraintError == "ConstraintError"
DataError == "DataError"
ReferenceError == "ReferenceError"
ConnNotOpen == "Connection not open."

\* The object stores of the database and the store key of each accessor.
StoreNames == {"a", "b"}

\* An IDBKeyRange is a pair <<lower, upper>> of inclusive bounds; <<>> is an
\* omitted query.  A count of 0 is an omitted count.
NoQuery == << >>
Ranges == {<<lo, hi>> : lo \in Keys, hi \in Keys} \ {<<lo, hi>> \in Keys \X Keys : lo > hi}
Queries == Ranges \cup {NoQuery}
Limits == 0..MaxKey

ReadOps == {"get", "getAllKeys", "getAll", "count"}
WriteOps == {"set", "delete", "clear"}
Ops == ReadOps \cup WriteOps

VARIABLES
  host,           \* the host: "none" (no global window), "window" (a window
                  \* without indexedDB) or "indexedDB"
  dbmeta,         \* the database: version, object store names, the stores with
                  \* a key generator and the last key each generator made
  stores,         \* committed records: stores[s][k] is a value, or 0 for no record
  opens,          \* idb.open requests in issue order: promise and connection
  txq,            \* call slots whose transaction is live, in creation order
  calls,          \* accessor calls: calls[c] for c in Slots
  store_dbPromise,\* Store.dbPromise of idb-store.js: the promise it was built with
  db_props,       \* DB of idb-store.js: the accessors attached to the instance
  db_dbPromise,   \* DB.dbPromise: null or a promise
  dcalls,         \* connection-manager calls: dcalls[d] for d in DbSlots
  last,           \* history: what the settled writes tell about each key
  ref,            \* history: the reference map, a key-to-value map per store
                  \* that the resolved writes were applied to in order, and
                  \* whether every call so far started with no other in flight
  dbhist,         \* history: the open() and close() calls made on the DB so far
  waiting         \* callbacks given to then and not yet run, in registration order

engineVars == <<dbmeta, stores, opens, txq>>
storeVars == <<store_dbPromise, db_props, host>>
dbVars == <<db_dbPromise, dcalls, dbhist>>
vars ==
  <<host, dbmeta, stores, opens, txq, calls, store_dbPromise, db_props, db_dbPromise, dcalls,
    last, ref, dbhist, waiting>>

(***************************************************************************)
(* Sequences and sets.                                                     *)
(***************************************************************************)
RECURSIVE SetToSeq(_)
SetToSeq(S) ==
  IF S = {} THEN << >>
  ELSE LET m == CHOOSE x \in S : \A y \in S : x <= y
       IN <<m>> \o SetToSeq(S \ {m})

Take(seq, n) == IF n = 0 \/ n >= Len(seq) THEN seq ELSE SubSeq(seq, 1, n)

Remove(seq, x) == SelectSeq(seq, LAMBDA y : y # x)

IndexOf(seq, x) == CHOOSE i \in 1..Len(seq) : seq[i] = x

InSeq(seq, x) == \E i \in 1..Len(seq) : seq[i] = x

(***************************************************************************)
(* The engine: promises of open requests and connections.                  *)
(* opens[i].p is the state of the promise idb.open returned, opens[i].conn *)
(* the state of the connection the request produced, opens[i].v the        *)
(* version asked for and opens[i].up the schemas its upgrade callback      *)
(* works through (none without a callback).  A promise of an open request  *)
(* is named by its index i > 0; when resolved its value is connection i.   *)
(* The promise that then returned for the callback DB.open of idb-store.js *)
(* gives to request i is named -i.                                         *)
(***************************************************************************)
OpenThen(i) == 0 - i

PState(p) ==
  IF p > 0 THEN opens[p].p
  ELSE IF (0 - p) \in db_props.done THEN "resolved"
  ELSE IF opens[0 - p].p = "rejected" THEN "rejected"
  ELSE "pending"

ConnState(i) == opens[i].conn

OpenConns == {i \in 1..Len(opens) : opens[i].conn = "open"}

\* A schema of createDatabase: create.name and create.options.autoIncrement.
Schema(s, auto) == [name |-> s, auto |-> auto]

\* The object stores in the order objectStoreNames lists them.
StoreOrder == <<"a", "b">>

\* idb.open(name, version, upgradeCallback): a new request, its promise pending.
IdbRequest(v, up) == [p |-> "pending", conn |-> "none", v |-> v, up |-> up, err |-> ""]

\* idb.open(name, version) at the version of the database.
IdbOpen == Append(opens, IdbRequest(1, << >>))

\* upgradeDB.createObjectStore(name, options)
IdbCreateObjectStore(meta, schema) ==
  [meta EXCEPT
     !.names = SelectSeq(StoreOrder, LAMBDA s : s = schema.name \/ InSeq(meta.names, s)),
     !.auto = IF schema.auto THEN @ \cup {schema.name} ELSE @]

\* IDBDatabase.close(): the connection takes no new transaction; live ones finish.
IdbClose(os, i) == [os EXCEPT ![i].conn = "closed"]

\* IDBDatabase.transaction(storeName, mode): what it throws, or "ok".
IdbTransaction(i, s) ==
  IF opens[i].conn # "open" THEN InvalidStateError
  ELSE IF ~InSeq(dbmeta.names, s) THEN NotFoundError
  ELSE "ok"

\* The value a resolved promise carries: the connection of the request, or
\* undefined for the promise then returned.
PValue(p) == IF p > 0 THEN p ELSE 0

(***************************************************************************)
(* The engine: requests on an object store.                                *)
(***************************************************************************)
InRange(k, q) == q = NoQuery \/ (q[1] <= k /\ k <= q[2])

KeysIn(s, q) == {k \in Keys : stores[s][k] # 0 /\ InRange(k, q)}

\* A request placed on an object store: the method of the idb object store that
\* was called and its arguments.
NoRequest == [kind |-> "-", key |-> 0, val |-> 0, q |-> NoQuery, n |-> 0]

Request(kind, k, v, q, n) == [kind |-> kind, key |-> k, val |-> v, q |-> q, n |-> n]

\* What put(val, key) throws, or "ok": a key is needed where no generator is.
IdbPut(s, r) == IF r.key = 0 /\ s \notin dbmeta.auto THEN DataError ELSE "ok"

\* The index of an object store, keyed by the value of the record: the primary
\* keys of the records whose index key is in the range, in the order of the
\* index (by index key, then by primary key).
IndexOrder(s, q) ==
  LET entries == {stores[s][k] * (MaxKey + 1) + k : k \in {x \in Keys : stores[s][x] # 0}}
      inq == {e \in entries : InRange(e \div (MaxKey + 1), q)}
      es == SetToSeq(inq)
  IN [i \in 1..Len(es) |-> es[i] % (MaxKey + 1)]

\* The methods an index has: the reading ones.  It has no put, delete or clear.
IndexMethods == {"index.get", "index.getKey", "index.getAll", "index.getAllKeys", "index.count"}

\* What the engine answers: a value, key or count in res, or a list.
\* On an index, get(key), getAll(query, count) and count(query) answer from the
\* records in the order of the index.
\*   get(key): the record's value, or undefined;
\*   put(val, key): the key, for an omitted key the next one of the generator;
\*   getAll(query, count): the values in ascending key order, at most count;
\*   count(query): the number of records in the range;
\*   iterateKeyCursor(callback) / iterateCursor(callback): the callback sees every
\*   key of the store in ascending order (no range is passed to the cursor).
IdbAnswer(s, r) ==
  CASE r.kind = "get" -> [res |-> stores[s][r.key], list |-> << >>]
    [] r.kind = "put" ->
         [res |-> IF r.key = 0 THEN dbmeta.gen[s] + 1 ELSE r.key, list |-> << >>]
    [] r.kind = "getAll" ->
         [res |-> 0,
          list |-> LET ks == Take(SetToSeq(KeysIn(s, r.q)), r.n)
                   IN [i \in 1..Len(ks) |-> stores[s][ks[i]]]]
    [] r.kind = "count" -> [res |-> Cardinality(KeysIn(s, r.q)), list |-> << >>]
    [] r.kind = "iterateCursor" -> [res |-> 0, list |-> SetToSeq(KeysIn(s, NoQuery))]
    [] r.kind = "index.get" ->
         [res |-> IF IndexOrder(s, <<r.key, r.key>>) = << >> THEN 0 ELSE r.key, list |-> << >>]
    [] r.kind = "index.getAll" ->
         [res |-> 0,
          list |-> LET ks == Take(IndexOrder(s, r.q), r.n)
                   IN [i \in 1..Len(ks) |-> stores[s][ks[i]]]]
    [] r.kind = "index.count" -> [res |-> Len(IndexOrder(s, r.q)), list |-> << >>]
    [] OTHER -> [res |-> 0, list |-> << >>]

\* The records of a store after a committed request.
IdbApply(recs, r) ==
  CASE r.kind = "put" -> [recs EXCEPT ![r.key] = r.val]
    [] r.kind = "delete" -> [recs EXCEPT ![r.key] = 0]
    [] r.kind = "clear" -> [x \in Keys |-> 0]
    [] OTHER -> recs

\* The key generator of a store after a committed request.
IdbGenerator(s, r) ==
  IF r.kind = "put" /\ s \in dbmeta.auto /\ r.key > dbmeta.gen[s] THEN r.key ELSE dbmeta.gen[s]

\* What a request is about to overwrite: the record under its key, or for clear
\* the number of records.
IdbBefore(recs, r) ==
  CASE r.kind \in {"put", "delete"} -> recs[r.key]
    [] r.kind = "clear" -> Cardinality({k \in Keys : recs[k] # 0})
    [] OTHER -> 0

(***************************************************************************)
(* Accessor calls.                                                         *)
(* A call record follows one invocation of an accessor method:             *)
(*   st     "idle", "waitConn" (the callback given to then has not run),   *)
(*          "inTx" (the callback ran and returned a promise), "settled";   *)
(*   p      the connection promise the method called then on;              *)
(*   conn   the connection its transaction was created on (0: none);       *)
(*   tx     "none", "active" (request placed), "reqdone" (request          *)
(*          succeeded), "committed", "aborted";                            *)
(*   scope, mode   the object stores and the mode db.transaction was       *)
(*          called with; txs: the calls of db.transaction made so far;     *)
(*   req    the request placed in the transaction; res, list: its result;  *)
(*   had    what the committed request overwrote;                          *)
(*   out    the promise the method returned: "pending", "resolved",        *)
(*          "rejected"; value, vlist: what it resolved with; err, prefix:  *)
(*          the error it rejected with and the message prefix put on it;   *)
(*   txAt, expect, clean, at   history kept for the properties below;      *)
(*   refAt  the reference map of the call's store when the call was made.  *)
(***************************************************************************)
Unknown == [kind |-> "unknown", val |-> 0, prev |-> 0]

NoHistory == [closed |-> FALSE, opened |-> 0, re |-> FALSE]

NoSnapshot ==
  [dbp |-> 0, reqs |-> 0, closed |-> FALSE, opened |-> 0, reopened |-> 0, version |-> 0,
   ran |-> FALSE]

\* History at the time of a call:
\*   dbp       this.dbPromise;   reqs   the open requests issued so far;
\*   closed    a close() has resolved and open() was not called since;
\*   opened    the promise of the latest open(), not rejected, no close() called since;
\*   reopened  that promise, if that open() followed a resolved close() and has
\*             itself resolved;
\*   version   the version of the database, 0 when there is none;
\*   ran       a callback that open() of idb-store.js gave to then has run.
Snapshot ==
  LET o == dbhist.opened
  IN [dbp |-> db_dbPromise, reqs |-> Len(opens), closed |-> dbhist.closed,
      opened |-> IF o # 0 /\ PState(o) # "rejected" THEN o ELSE 0,
      reopened |-> IF o # 0 /\ dbhist.re /\ PState(o) = "resolved" THEN o ELSE 0,
      version |-> dbmeta.version, ran |-> db_props.done # {}]

\* Callbacks given to then on one promise run in the order they were given:
\* <<"c", c>> is the callback of accessor call c, <<"d", d>> that of DB call d.
PromiseOf(id) == IF id[1] = "c" THEN calls[id[2]].p ELSE dcalls[id[2]].p

Turn(id) ==
  LET same == SelectSeq(waiting, LAMBDA x : PromiseOf(x) = PromiseOf(id))
  IN Len(same) > 0 /\ Head(same) = id

IdleCall ==
  [st |-> "idle", cls |-> "-", op |-> "-", store |-> "-", key |-> 0, val |-> 0,
   q |-> NoQuery, n |-> 0, p |-> 0, conn |-> 0, tx |-> "none", mode |-> "-",
   req |-> NoRequest, res |-> 0, list |-> << >>, reqDone |-> FALSE, had |-> 0,
   out |-> "pending", value |-> 0, vlist |-> << >>, err |-> "", prefix |-> "",
   txAt |-> "none", expect |-> Unknown, clean |-> FALSE, at |-> NoSnapshot,
   refAt |-> [k \in Keys |-> 0], scope |-> {}, txs |-> 0]

\* The arguments a caller passes, per method; unused positions are left at 0 / <<>>.
ArgsKeyed ==
  [op : {"get", "delete"}, key : Keys, val : {0}, q : {NoQuery}, n : {0}]
  \cup [op : {"set"}, key : Keys, val : Vals, q : {NoQuery}, n : {0}]
  \cup [op : {"clear"}, key : {0}, val : {0}, q : {NoQuery}, n : {0}]

\* getAllKeys(), getAll() and count() called without arguments ...
ArgsAll == [op : {"getAllKeys", "getAll", "count"}, key : {0}, val : {0}, q : {NoQuery}, n : {0}]

\* ... and with a key range and a count.
ArgsQuery ==
  [op : {"getAllKeys", "getAll"}, key : {0}, val : {0}, q : Queries, n : Limits]
  \cup [op : {"count"}, key : {0}, val : {0}, q : Queries, n : {0}]

Args == ArgsKeyed \cup ArgsAll

InFlight(call) == call.st \in {"waitConn", "inTx"}

\* A slot takes a new call once its promise has settled and its transaction ended.
Free(c) == calls[c].st \in {"idle", "settled"} /\ calls[c].tx \notin {"active", "reqdone"}

\* The lowest free slot takes the next call.
NextSlot(c) == Free(c) /\ \A d \in Slots : d < c => ~Free(d)

\* Keys of the store a call reads or writes; a set without a key writes the key
\* the generator makes.
Touched(op, k) == IF op \in {"get", "set", "delete"} /\ k # 0 THEN {k} ELSE Keys

Overlap(call, op, s, k) ==
  /\ InFlight(call)
  /\ call.store = s
  /\ Touched(call.op, call.key) \cap Touched(op, k) # {}

\* History: what a caller that awaited every earlier call knows about the keys a
\* read is about to observe.
Knowledge(op, s, k) ==
  IF op = "get" THEN last[s][k]
  ELSE IF \A x \in Keys : last[s][x].kind = "cleared" THEN last[s][MaxKey]
  ELSE IF \A x \in Keys : last[s][x].kind \in {"init", "set"}
  THEN [kind |-> "sets", val |-> Cardinality({x \in Keys : last[s][x].kind = "set"}), prev |-> 0]
  ELSE Unknown

NewCall(cls, s, a, p) ==
  LET busy == \E d \in Slots : calls[d].op \in WriteOps /\ Overlap(calls[d], a.op, s, a.key)
  IN [IdleCall EXCEPT
        !.st = "waitConn", !.cls = cls, !.op = a.op, !.store = s, !.key = a.key,
        !.val = a.val, !.q = a.q, !.n = a.n, !.p = p, !.at = Snapshot,
        !.refAt = ref.recs[s],
        !.expect = IF a.op \in ReadOps /\ ~busy THEN Knowledge(a.op, s, a.key) ELSE Unknown,
        !.clean = (a.op \in WriteOps /\ ~busy)]

\* A write that starts while another call on the same keys is in flight makes the
\* outcome of both depend on the engine's order.
Disturb(call, op, s, k) ==
  IF op \in WriteOps /\ Overlap(call, op, s, k)
  THEN [call EXCEPT !.expect = Unknown, !.clean = FALSE]
  ELSE call

StartCall(c, cls, s, a, p) ==
  /\ waiting' = Append(waiting, <<"c", c>>)
  /\ calls' = [d \in Slots |-> IF d = c THEN NewCall(cls, s, a, p)
                                ELSE Disturb(calls[d], a.op, s, a.key)]
  /\ last' = IF a.op \in WriteOps /\ ~(a.op = "set" /\ a.key = 0)
             THEN [last EXCEPT ![s] = [x \in Keys |->
                     IF x \in Touched(a.op, a.key) THEN Unknown ELSE last[s][x]]]
             ELSE last
  /\ ref' = [ref EXCEPT !.seq = @ /\ \A d \in Slots : ~InFlight(calls[d])]

\* What a resolved write tells about the keys it touched.
Told(call) ==
  CASE call.op = "set" -> [kind |-> "set", val |-> call.val, prev |-> call.had]
    [] call.op = "delete" -> [kind |-> "deleted", val |-> 0, prev |-> call.had]
    [] OTHER -> [kind |-> "cleared", val |-> 0, prev |-> call.had]

NoteSettled(call, out) ==
  IF call.op \in WriteOps /\ out = "resolved" /\ call.clean
  THEN [last EXCEPT ![call.store] = [x \in Keys |->
          IF x \in Touched(call.op, IF call.op = "set" THEN call.res ELSE call.key)
          THEN Told(call) ELSE last[call.store][x]]]
  ELSE last

\* The reference map of a store after a write: set(val, key), delete(key), clear().
RefApply(m, op, k, v) ==
  CASE op = "set" -> [m EXCEPT ![k] = v]
    [] op = "delete" -> [m EXCEPT ![k] = 0]
    [] op = "clear" -> [x \in Keys |-> 0]
    [] OTHER -> m

\* What the reference map gives for a read without a key range.
RefAnswer(m, op, k) ==
  LET ks == SetToSeq({x \in Keys : m[x] # 0})
  IN CASE op = "get" -> [value |-> m[k], vlist |-> << >>]
       [] op = "count" -> [value |-> Len(ks), vlist |-> << >>]
       [] op = "getAllKeys" -> [value |-> 0, vlist |-> ks]
       [] OTHER -> [value |-> 0, vlist |-> [i \in 1..Len(ks) |-> m[ks[i]]]]

\* A resolved write is applied to the reference map; a set without a key is
\* applied under the key its request answered.
RefSettled(call) ==
  IF call.op \in WriteOps
  THEN [ref EXCEPT !.recs[call.store] =
          RefApply(@, call.op, IF call.op = "set" /\ call.key = 0 THEN call.res ELSE call.key,
                   call.val)]
  ELSE ref

\* The promise of call c resolves with a value or a list.
Resolve(c, value, vlist) ==
  /\ calls' = [calls EXCEPT ![c].st = "settled", ![c].out = "resolved",
                            ![c].value = value, ![c].vlist = vlist, ![c].txAt = calls[c].tx]
  /\ last' = NoteSettled(calls[c], "resolved")
  /\ ref' = RefSettled(calls[c])

\* The promise of call c rejects with err, its message prefixed with prefix.
Reject(c, err, prefix) ==
  /\ calls' = [calls EXCEPT ![c].st = "settled", ![c].out = "rejected",
                            ![c].err = err, ![c].prefix = prefix, ![c].txAt = calls[c].tx]
  /\ last' = last
  /\ ref' = ref

(***************************************************************************)
(* Deviating variants of the accessors: a property that rests on the code  *)
(* fails when the variant takes the place of the definition it is named    *)
(* after.                                                                  *)
(***************************************************************************)
\* Every method returns the promise of its request.
Store_awaits_Request(op) == "request"

\* set places put(key, val) in place of put(val, key).
Store_request_PutSwapped(op, k, v, q, n) ==
  CASE op = "get" -> Request("get", k, 0, NoQuery, 0)
    [] op = "set" -> Request("put", v, k, NoQuery, 0)
    [] op = "delete" -> Request("delete", k, 0, NoQuery, 0)
    [] op = "clear" -> Request("clear", 0, 0, NoQuery, 0)
    [] op = "getAllKeys" -> Request("iterateCursor", 0, 0, NoQuery, 0)
    [] op = "getAll" -> Request("getAll", 0, 0, q, n)
    [] OTHER -> Request("count", 0, 0, q, 0)

\* clear places count() in place of clear().
Store_request_ClearAsCount(op, k, v, q, n) ==
  CASE op = "get" -> Request("get", k, 0, NoQuery, 0)
    [] op = "set" -> Request("put", k, v, NoQuery, 0)
    [] op = "delete" -> Request("delete", k, 0, NoQuery, 0)
    [] op = "getAllKeys" -> Request("iterateCursor", 0, 0, NoQuery, 0)
    [] op = "getAll" -> Request("getAll", 0, 0, q, n)
    [] OTHER -> Request("count", 0, 0, q, 0)

\* Every method opens its transaction with 'readwrite'.
Store_mode_ReadWrite(op) == "readwrite"

\* delete places clear() in place of delete(key).
Store_request_DeleteAsClear(op, k, v, q, n) ==
  CASE op = "get" -> Request("get", k, 0, NoQuery, 0)
    [] op = "set" -> Request("put", k, v, NoQuery, 0)
    [] op \in {"delete", "clear"} -> Request("clear", 0, 0, NoQuery, 0)
    [] op = "getAllKeys" -> Request("iterateCursor", 0, 0, NoQuery, 0)
    [] op = "getAll" -> Request("getAll", 0, 0, q, n)
    [] OTHER -> Request("count", 0, 0, q, 0)

\* createDatabase asks for the version after the one it was passed.
createDatabase_version_Next(version) == version + 1

\* Every method puts the prefix of get on the message.
\* delete(key) of unnamed/part_001 that places clear() instead.
IStore_request_DeleteAsClear(op, k, v, q, n) ==
  CASE op = "get" -> Request("get", k, 0, NoQuery, 0)
    [] op = "set" -> Request("put", k, v, NoQuery, 0)
    [] op = "delete" -> Request("clear", 0, 0, NoQuery, 0)
    [] op = "clear" -> Request("clear", 0, 0, NoQuery, 0)
    [] op = "getAllKeys" -> Request("iterateCursor", 0, 0, NoQuery, 0)
    [] op = "getAll" -> Request("getAll", 0, 0, q, n)
    [] OTHER -> Request("count", 0, 0, q, 0)

IStore_prefix_OfGet(op) == "Failed to get store record: "

\* getConnection() calls open() once and hands back that first promise ever after.
Repo_getConnection_First(dbp, n) == IF n > 0 THEN 1 ELSE n + 1

\* getConnection() hands back the promise the DB holds, without a call of open().
Repo_getConnection_Held(dbp, n) == dbp

\* open() hands back the promise it holds while it holds one.
DB_open_promise_Reuse(dbp, n) == IF dbp # 0 THEN dbp ELSE n + 1

(***************************************************************************)
(* Store of idb-store.js (lines 13-128): every method calls then on the    *)
(* promise the Store was built with.                                       *)
(***************************************************************************)
\* db.transaction(this.storeKey [, 'readwrite'])
Store_mode(op) == IF op \in {"set", "delete", "clear"} THEN "readwrite" ELSE "readonly"

\* db.transaction(this.storeKey ...): the one store the Store was built for.
Store_scope(s) == {s}

\* The promise the callback returns: the request's, or tx.complete.
Store_awaits(op) == IF op \in {"get", "count"} THEN "request" ELSE "complete"

\* store.<op>(args): return this.dbPromise.then(db => ...)
Store_call(c, s, a) ==
  /\ NextSlot(c)
  /\ store_dbPromise # 0
  /\ StartCall(c, "Store", s, a, store_dbPromise)
  /\ UNCHANGED <<engineVars, storeVars, dbVars>>

\* The request each method places on tx.objectStore(this.storeKey).
Store_request(op, k, v, q, n) ==
  CASE op = "get" -> Request("get", k, 0, NoQuery, 0)
    [] op = "set" -> Request("put", k, v, NoQuery, 0)
    [] op = "delete" -> Request("delete", k, 0, NoQuery, 0)
    [] op = "clear" -> Request("clear", 0, 0, NoQuery, 0)
    [] op = "getAllKeys" -> Request("iterateCursor", 0, 0, NoQuery, 0)
    [] op = "getAll" -> Request("getAll", 0, 0, q, n)
    [] OTHER -> Request("count", 0, 0, q, 0)

\* What the method's promise resolves with once the awaited promise has.
Store_value(op, res, list) ==
  CASE op \in {"get", "count"} -> [value |-> res, vlist |-> << >>]
    [] op \in {"getAllKeys", "getAll"} -> [value |-> 0, vlist |-> list]
    [] OTHER -> [value |-> 0, vlist |-> << >>]

\* The callback given to then: db => { tx = db.transaction(...); <request>; return ... }
Store_then(c) ==
  LET call == calls[c]
      r == Store_request(call.op, call.key, call.val, call.q, call.n)
      thrown == IF PValue(call.p) = 0 THEN TypeError
                ELSE IF IdbTransaction(call.p, call.store) # "ok"
                THEN IdbTransaction(call.p, call.store)
                ELSE IF r.kind = "put" THEN IdbPut(call.store, r) ELSE "ok"
  IN /\ call.cls = "Store"
     /\ call.st = "waitConn"
     /\ PState(call.p) # "pending"
     /\ Turn(<<"c", c>>)
     /\ waiting' = Remove(waiting, <<"c", c>>)
     /\ IF PState(call.p) = "rejected"
        THEN Reject(c, OpenError, "") /\ txq' = txq
        ELSE IF thrown # "ok"
        THEN Reject(c, thrown, "") /\ txq' = txq
        ELSE /\ calls' = [calls EXCEPT
                          ![c].st = "inTx", ![c].tx = "active", ![c].conn = call.p,
                          ![c].mode = Store_mode(call.op), ![c].req = r,
                          ![c].scope = Store_scope(call.store), ![c].txs = call.txs + 1]
             /\ txq' = Append(txq, c)
             /\ last' = last
             /\ ref' = ref
     /\ UNCHANGED <<dbmeta, stores, opens, storeVars, dbVars>>

\* The promise the callback returned settles, and with it the method's promise.
Store_settle(c) ==
  LET call == calls[c]
      v == Store_value(call.op, call.res, call.list)
  IN /\ call.cls = "Store"
     /\ call.st = "inTx"
     /\ IF Store_awaits(call.op) = "request"
        THEN \/ call.reqDone /\ Resolve(c, v.value, v.vlist)
             \/ ~call.reqDone /\ call.tx = "aborted" /\ Reject(c, AbortError, "")
        ELSE \/ call.tx = "committed" /\ Resolve(c, v.value, v.vlist)
             \/ call.tx = "aborted" /\ Reject(c, AbortError, "")
     /\ UNCHANGED <<engineVars, storeVars, dbVars, waiting>>

(***************************************************************************)
(* DB of store-repository.js (lines 171-394), an instance as its           *)
(* constructor lays it out: dbName and version as passed in, dbPromise     *)
(* null.  A call record follows one invocation of a method:                *)
(*   st    "idle", "waitConn" (the callback given to then has not run),    *)
(*         "closing" (close: the first callback ran, the second has not),  *)
(*         "subscribed" (on<event>: the handler is set on the connection), *)
(*         "lost" (on<event>: the promise can no longer settle),           *)
(*         "missed" (on<event>: the event fired and the promise stayed     *)
(*         pending),                                                       *)
(*         "settled";                                                      *)
(*   p     the value of this.dbPromise the method called then on;          *)
(*   out   "promise" (open: the promise returned, in val), "resolved",     *)
(*         "rejected", "returned" (a synchronous result, in val), or       *)
(*         "thrown" for an exception out of the method;                    *)
(*   val   for a resolved call, the request whose connection it read; for  *)
(*         createDatabase the version passed; for hasSupport 1 for true    *)
(*         and 0 for false;                                                *)
(*   live  on<event>: the handler set by this call is still the            *)
(*         connection's handler;                                           *)
(*   schemas   the schema descriptors the call was passed;                 *)
(*   at    history: what held when the method was called.                  *)
(***************************************************************************)
Getters == {"name", "version", "objectStoreNames"}

Events == {"versionchange", "close", "error", "abort"}

IdleDbCall ==
  [st |-> "idle", op |-> "-", arg |-> "-", p |-> 0, out |-> "pending", err |-> "",
   val |-> 0, live |-> FALSE, at |-> NoSnapshot, schemas |-> << >>]

FreeDb(d) == dcalls[d].st \in {"idle", "settled", "lost", "missed"}

NextDbSlot(d) == FreeDb(d) /\ \A e \in DbSlots : e < d => ~FreeDb(e)

DbCall(op, arg) == [IdleDbCall EXCEPT !.op = op, !.arg = arg, !.at = Snapshot]

DbSettled(call, out, err, val) ==
  [call EXCEPT !.st = "settled", !.out = out, !.err = err, !.val = val]

\* function connectionError(): Promise.reject(new Error('Connection not open.'))
connectionError(call) == DbSettled(call, "rejected", ConnNotOpen, 0)

\* this.dbPromise.then(...): a method that reaches it with dbPromise null throws.
DbThen(call, dbp) ==
  IF dbp = 0 THEN DbSettled(call, "thrown", TypeError, 0)
  ELSE [call EXCEPT !.st = "waitConn", !.p = dbp]

\* if (!this.dbPromise) return connectionError(); return this.dbPromise.then(...)
DbGuardedThen(call, dbp) == IF dbp = 0 THEN connectionError(call) ELSE DbThen(call, dbp)

\* The callback of DB call d is given to then, if the method came that far.
DbRegister(d, dbp) == waiting' = IF dbp = 0 THEN waiting ELSE Append(waiting, <<"d", d>>)

\* The callback of DB call d runs.
DbTurn(d) == Turn(<<"d", d>>) /\ waiting' = Remove(waiting, <<"d", d>>)

\* open(): the promise idb.open(this.dbName, this.version) returns, that of a new
\* request, the n+1st.
DB_open_promise(dbp, n) == n + 1

\* open() { this.dbPromise = idb.open(...); return this.dbPromise; }
DB_open_effect(r) ==
  /\ opens' = IF r > Len(opens) THEN IdbOpen ELSE opens
  /\ db_dbPromise' = r
  /\ dbhist' = [closed |-> FALSE, opened |-> r, re |-> dbhist.closed \/ dbhist.re]

DB_open(d) ==
  LET r == DB_open_promise(db_dbPromise, Len(opens))
  IN /\ NextDbSlot(d)
     /\ Len(opens) < MaxOpens
     /\ DB_open_effect(r)
     /\ dcalls' = [dcalls EXCEPT ![d] = DbSettled(DbCall("open", "-"), "promise", "", r)]
     /\ UNCHANGED <<dbmeta, stores, txq, calls, storeVars, last, ref, waiting>>

\* close(): guarded; then(db => db.close()).then(() => { this.dbPromise = null; })
DB_close(d) ==
  /\ NextDbSlot(d)
  /\ dcalls' = [dcalls EXCEPT ![d] = DbGuardedThen(DbCall("close", "-"), db_dbPromise)]
  /\ DbRegister(d, db_dbPromise)
  /\ dbhist' = [dbhist EXCEPT !.opened = 0, !.re = FALSE]
  /\ UNCHANGED <<engineVars, calls, storeVars, db_dbPromise, last, ref>>

\* The first callback of close: db => db.close()
DB_close_then(d) ==
  LET call == dcalls[d]
  IN /\ call.op = "close" /\ call.st = "waitConn"
     /\ PState(call.p) # "pending"
     /\ DbTurn(d)
     /\ IF PState(call.p) = "rejected"
        THEN /\ dcalls' = [dcalls EXCEPT ![d] = DbSettled(call, "rejected", OpenError, 0)]
             /\ opens' = opens
        ELSE /\ dcalls' = [dcalls EXCEPT ![d].st = "closing"]
             /\ opens' = IdbClose(opens, call.p)
     /\ UNCHANGED <<dbmeta, stores, txq, calls, storeVars, db_dbPromise, dbhist, last, ref>>

\* The second callback of close: () => { this.dbPromise = null; }
DB_close_done(d) ==
  LET call == dcalls[d]
  IN /\ call.op = "close" /\ call.st = "closing"
     /\ db_dbPromise' = 0
     /\ dcalls' = [dcalls EXCEPT ![d] = DbSettled(call, "resolved", "", 0)]
     /\ dbhist' = [dbhist EXCEPT !.closed = TRUE]
     /\ UNCHANGED <<engineVars, calls, storeVars, last, ref, waiting>>

\* get name() / get version() / get objectStoreNames(): guarded; then(db => db.<g>)
DB_get(d, g) ==
  /\ NextDbSlot(d)
  /\ dcalls' = [dcalls EXCEPT ![d] = DbGuardedThen(DbCall(g, "-"), db_dbPromise)]
  /\ DbRegister(d, db_dbPromise)
  /\ UNCHANGED <<engineVars, calls, storeVars, db_dbPromise, dbhist, last, ref>>

DB_get_then(d) ==
  LET call == dcalls[d]
  IN /\ call.op \in Getters /\ call.st = "waitConn"
     /\ PState(call.p) # "pending"
     /\ DbTurn(d)
     /\ dcalls' = [dcalls EXCEPT ![d] =
                     IF PState(call.p) = "rejected"
                     THEN DbSettled(call, "rejected", OpenError, 0)
                     ELSE DbSettled(call, "resolved", "", call.p)]
     /\ UNCHANGED <<engineVars, calls, storeVars, db_dbPromise, dbhist, last, ref>>

\* transaction(storeNames, mode): return this.dbPromise.then(db => db.transaction(...))
DB_transaction(d, s) ==
  /\ NextDbSlot(d)
  /\ dcalls' = [dcalls EXCEPT ![d] = DbThen(DbCall("transaction", s), db_dbPromise)]
  /\ DbRegister(d, db_dbPromise)
  /\ UNCHANGED <<engineVars, calls, storeVars, db_dbPromise, dbhist, last, ref>>

\* The transaction it resolves with places no request and ends by itself.
DB_transaction_then(d) ==
  LET call == dcalls[d]
      thrown == IdbTransaction(call.p, call.arg)
  IN /\ call.op = "transaction" /\ call.st = "waitConn"
     /\ PState(call.p) # "pending"
     /\ DbTurn(d)
     /\ dcalls' = [dcalls EXCEPT ![d] =
                     IF PState(call.p) = "rejected"
                     THEN DbSettled(call, "rejected", OpenError, 0)
                     ELSE IF thrown # "ok" THEN DbSettled(call, "rejected", thrown, 0)
                     ELSE DbSettled(call, "resolved", "", call.p)]
     /\ UNCHANGED <<engineVars, calls, storeVars, db_dbPromise, dbhist, last, ref>>

\* onversionchange() / onclose() / onerror() / onabort(): guarded;
\* new Promise(resolve => this.dbPromise.then(db => { db._db.on<ev> = resolve-it; }))
DB_on(d, ev) ==
  /\ NextDbSlot(d)
  /\ dcalls' = [dcalls EXCEPT ![d] = DbGuardedThen(DbCall("on", ev), db_dbPromise)]
  /\ DbRegister(d, db_dbPromise)
  /\ UNCHANGED <<engineVars, calls, storeVars, db_dbPromise, dbhist, last, ref>>

\* The callback sets the connection's handler, replacing the one set before; when
\* dbPromise rejected nothing settles the promise the method returned.
DB_on_then(d) ==
  LET call == dcalls[d]
  IN /\ call.op = "on" /\ call.st = "waitConn"
     /\ PState(call.p) # "pending"
     /\ DbTurn(d)
     /\ dcalls' = [e \in DbSlots |->
          IF e = d
          THEN IF PState(call.p) = "rejected" THEN [call EXCEPT !.st = "lost"]
               ELSE [call EXCEPT !.st = "subscribed", !.live = TRUE]
          ELSE IF PState(call.p) = "resolved" /\ dcalls[e].op = "on"
                  /\ dcalls[e].p = call.p /\ dcalls[e].arg = call.arg
               THEN [dcalls[e] EXCEPT !.live = FALSE]
               ELSE dcalls[e]]
     /\ UNCHANGED <<engineVars, calls, storeVars, db_dbPromise, dbhist, last, ref>>

(***************************************************************************)
(* StoreRepository of store-repository.js (lines 9-144) and the Store of   *)
(* unnamed/part_001 (lines 11-202), each bound to a DB: every method gets  *)
(* its connection from getConnection().                                    *)
(***************************************************************************)
\* An exception out of the method itself.
Throw(c, call, err) ==
  /\ calls' = [calls EXCEPT ![c] = [call EXCEPT !.st = "settled", !.out = "thrown", !.err = err]]
  /\ last' = last
  /\ ref' = ref
  /\ waiting' = waiting

\* getConnection() { return this.idbConnection.open(); }
Repo_getConnection(dbp, n) == DB_open_promise(dbp, n)

\* const connection = this.getConnection(); return connection.then(db => ...)
Acc_call(c, cls, s, a) ==
  LET p == Repo_getConnection(db_dbPromise, Len(opens))
  IN /\ NextSlot(c)
     /\ Len(opens) < MaxOpens
     /\ IF p > Len(opens) THEN DB_open_effect(p) ELSE UNCHANGED <<opens, db_dbPromise, dbhist>>
     /\ IF p = 0 THEN Throw(c, NewCall(cls, s, a, p), TypeError) ELSE StartCall(c, cls, s, a, p)
     /\ UNCHANGED <<dbmeta, stores, txq, storeVars, dcalls>>

Repo_call(c, s, a) == Acc_call(c, "Repo", s, a)

\* db.transaction(this.storeKey [, 'readwrite'])
Repo_mode(op) == IF op \in {"set", "delete", "clear"} THEN "readwrite" ELSE "readonly"

Repo_scope(s) == {s}

\* The request each method places on tx.objectStore(this.storeKey).
Repo_request(op, k, v, q, n) ==
  CASE op = "get" -> Request("get", k, 0, NoQuery, 0)
    [] op = "set" -> Request("put", k, v, NoQuery, 0)
    [] op = "delete" -> Request("delete", k, 0, NoQuery, 0)
    [] op = "clear" -> Request("clear", 0, 0, NoQuery, 0)
    [] op = "getAllKeys" -> Request("iterateCursor", 0, 0, NoQuery, 0)
    [] op = "getAll" -> Request("getAll", 0, 0, q, n)
    [] OTHER -> Request("count", 0, 0, q, 0)

\* tx.complete.then(connection.close).then(() => val): connection is the promise,
\* which has no close, so the step passes the completion on and closes nothing.
Repo_value(op, res, list) ==
  CASE op \in {"get", "count"} -> [value |-> res, vlist |-> << >>]
    [] op \in {"getAllKeys", "getAll"} -> [value |-> 0, vlist |-> list]
    [] OTHER -> [value |-> 0, vlist |-> << >>]

\* The callback given to then: db => { tx = db.transaction(...); <request>; return ... }
Repo_then(c) ==
  LET call == calls[c]
      thrown == IdbTransaction(call.p, call.store)
  IN /\ call.cls = "Repo"
     /\ call.st = "waitConn"
     /\ PState(call.p) # "pending"
     /\ Turn(<<"c", c>>)
     /\ waiting' = Remove(waiting, <<"c", c>>)
     /\ IF PState(call.p) = "rejected"
        THEN Reject(c, OpenError, "") /\ txq' = txq
        ELSE IF thrown # "ok"
        THEN Reject(c, thrown, "") /\ txq' = txq
        ELSE /\ calls' = [calls EXCEPT
                          ![c].st = "inTx", ![c].tx = "active", ![c].conn = call.p,
                          ![c].mode = Repo_mode(call.op),
                          ![c].scope = Repo_scope(call.store), ![c].txs = call.txs + 1,
                          ![c].req = Repo_request(call.op, call.key, call.val, call.q, call.n)]
             /\ txq' = Append(txq, c)
             /\ last' = last
             /\ ref' = ref
     /\ UNCHANGED <<dbmeta, stores, opens, storeVars, dbVars>>

\* tx.complete settles, and with it the method's promise.
Repo_settle(c) ==
  LET call == calls[c]
      v == Repo_value(call.op, call.res, call.list)
  IN /\ call.cls = "Repo"
     /\ call.st = "inTx"
     /\ \/ call.tx = "committed" /\ Resolve(c, v.value, v.vlist)
        \/ call.tx = "aborted" /\ Reject(c, AbortError, "")
     /\ UNCHANGED <<engineVars, storeVars, dbVars, waiting>>

\* The Store of unnamed/part_001, its methods called without an index name.
IStore_call(c, s, a) == Acc_call(c, "IStore", s, a)

IStore_mode(op) == IF op \in {"set", "delete", "clear"} THEN "readwrite" ELSE "readonly"

IStore_scope(s) == {s}

IStore_request(op, k, v, q, n) ==
  CASE op = "get" -> Request("get", k, 0, NoQuery, 0)
    [] op = "set" -> Request("put", k, v, NoQuery, 0)
    [] op = "delete" -> Request("delete", k, 0, NoQuery, 0)
    [] op = "clear" -> Request("clear", 0, 0, NoQuery, 0)
    [] op = "getAllKeys" -> Request("iterateCursor", 0, 0, NoQuery, 0)
    [] op = "getAll" -> Request("getAll", 0, 0, q, n)
    [] OTHER -> Request("count", 0, 0, q, 0)

\* set returns Promise.all([request, tx.complete]): the key and undefined.
IStore_value(op, res, list) ==
  CASE op \in {"get", "count"} -> [value |-> res, vlist |-> << >>]
    [] op \in {"getAllKeys", "getAll"} -> [value |-> 0, vlist |-> list]
    [] op = "set" -> [value |-> 0, vlist |-> <<res, 0>>]
    [] OTHER -> [value |-> 0, vlist |-> << >>]

\* .catch(err => { let _err = new Error(err); _err.message = <prefix> + _err.message; ... })
IStore_prefix(op) ==
  CASE op = "get" -> "Failed to get store record: "
    [] op = "set" -> "Failed to set store record: "
    [] op = "delete" -> "Failed to remove store record: "
    [] op = "clear" -> "Failed to clear store records: "
    [] op = "getAllKeys" -> "Failed to get store keys: "
    [] op = "getAll" -> "Failed to get all store records: "
    [] OTHER -> "Failed to get store count: "

\* The callback: db => { tx = db.transaction(...); <request>; db.close(); return ... }
IStore_then(c) ==
  LET call == calls[c]
      r == IStore_request(call.op, call.key, call.val, call.q, call.n)
      thrown == IF IdbTransaction(call.p, call.store) # "ok"
                THEN IdbTransaction(call.p, call.store)
                ELSE IF r.kind = "put" THEN IdbPut(call.store, r) ELSE "ok"
  IN /\ call.cls = "IStore"
     /\ call.st = "waitConn"
     /\ PState(call.p) # "pending"
     /\ Turn(<<"c", c>>)
     /\ waiting' = Remove(waiting, <<"c", c>>)
     /\ IF PState(call.p) = "rejected"
        THEN Reject(c, OpenError, IStore_prefix(call.op)) /\ UNCHANGED <<txq, opens>>
        ELSE IF thrown # "ok"
        THEN Reject(c, thrown, IStore_prefix(call.op)) /\ UNCHANGED <<txq, opens>>
        ELSE /\ calls' = [calls EXCEPT
                          ![c].st = "inTx", ![c].tx = "active", ![c].conn = call.p,
                          ![c].mode = IStore_mode(call.op), ![c].req = r,
                          ![c].scope = IStore_scope(call.store), ![c].txs = call.txs + 1]
             /\ txq' = Append(txq, c)
             /\ opens' = IdbClose(opens, call.p)
             /\ last' = last
             /\ ref' = ref
     /\ UNCHANGED <<dbmeta, stores, storeVars, dbVars>>

IStore_settle(c) ==
  LET call == calls[c]
      v == IStore_value(call.op, call.res, call.list)
  IN /\ call.cls = "IStore"
     /\ call.st = "inTx"
     /\ \/ call.tx = "committed" /\ Resolve(c, v.value, v.vlist)
        \/ call.tx = "aborted" /\ Reject(c, AbortError, IStore_prefix(call.op))
     /\ UNCHANGED <<engineVars, storeVars, dbVars, waiting>>

\* The Store of unnamed/part_001, its methods called with an index name.
\* get, delete, getAll and count have the parameter indexName and reach the
\* index with tx.objectStore(this.storeKey).index(indexName); set, clear and
\* getAllKeys have no such parameter, and an argument in its place is not read.
IStoreIx_call(c, s, a) == Acc_call(c, "IStoreIx", s, a)

IStoreIx_request(op, k, v, q, n) ==
  CASE op = "get" -> Request("index.get", k, 0, NoQuery, 0)
    [] op = "delete" -> Request("index.delete", k, 0, NoQuery, 0)
    [] op = "getAll" -> Request("index.getAll", 0, 0, q, n)
    [] op = "count" -> Request("index.count", 0, 0, q, 0)
    [] OTHER -> IStore_request(op, k, v, q, n)

OnIndex(r) == r.kind \in {"index.get", "index.delete", "index.getAll", "index.count"}

\* The call of a method the index does not have throws a TypeError in the
\* callback, after db.transaction and before db.close().
IStoreIx_thrown(p, s, r) ==
  IF IdbTransaction(p, s) # "ok" THEN IdbTransaction(p, s)
  ELSE IF OnIndex(r) /\ r.kind \notin IndexMethods THEN TypeError
  ELSE IF r.kind = "put" THEN IdbPut(s, r)
  ELSE "ok"

\* A callback that throws after db.transaction leaves behind a transaction
\* without a request, which changes nothing, and the connection open.
IStoreIx_then(c) ==
  LET call == calls[c]
      r == IStoreIx_request(call.op, call.key, call.val, call.q, call.n)
      thrown == IStoreIx_thrown(call.p, call.store, r)
  IN /\ call.cls = "IStoreIx"
     /\ call.st = "waitConn"
     /\ PState(call.p) # "pending"
     /\ Turn(<<"c", c>>)
     /\ waiting' = Remove(waiting, <<"c", c>>)
     /\ IF PState(call.p) = "rejected"
        THEN Reject(c, OpenError, IStore_prefix(call.op)) /\ UNCHANGED <<txq, opens>>
        ELSE IF thrown # "ok"
        THEN Reject(c, thrown, IStore_prefix(call.op)) /\ UNCHANGED <<txq, opens>>
        ELSE /\ calls' = [calls EXCEPT
                          ![c].st = "inTx", ![c].tx = "active", ![c].conn = call.p,
                          ![c].mode = IStore_mode(call.op), ![c].req = r,
                          ![c].scope = IStore_scope(call.store), ![c].txs = call.txs + 1]
             /\ txq' = Append(txq, c)
             /\ opens' = IdbClose(opens, call.p)
             /\ last' = last
             /\ ref' = ref
     /\ UNCHANGED <<dbmeta, stores, storeVars, dbVars>>

IStoreIx_settle(c) ==
  LET call == calls[c]
      v == IStore_value(call.op, call.res, call.list)
  IN /\ call.cls = "IStoreIx"
     /\ call.st = "inTx"
     /\ \/ call.tx = "committed" /\ Resolve(c, v.value, v.vlist)
        \/ call.tx = "aborted" /\ Reject(c, AbortError, IStore_prefix(call.op))
     /\ UNCHANGED <<engineVars, storeVars, dbVars, waiting>>

(***************************************************************************)
(* The statics of DB, the same text in idb-store.js (lines 183-223) and in *)
(* store-repository.js (lines 198-238).                                    *)
(***************************************************************************)
\* if (!upgradeDB.objectStoreNames.contains(schema.create.name))
createDatabase_creates(names, schema) == ~InSeq(names, schema.name)

\* The upgrade callback: schemas.forEach(schema => { create the store if the
\* database has none of that name }).  createObjectStore throws a
\* ConstraintError for a name the database has, which ends the callback.  The
\* index a schema may name is not part of the model.
RECURSIVE createDatabase_upgrade(_, _)
createDatabase_upgrade(meta, schemas) ==
  IF schemas = << >> THEN [meta |-> meta, err |-> ""]
  ELSE IF ~createDatabase_creates(meta.names, Head(schemas))
  THEN createDatabase_upgrade(meta, Tail(schemas))
  ELSE IF InSeq(meta.names, Head(schemas).name)
  THEN [meta |-> meta, err |-> ConstraintError]
  ELSE createDatabase_upgrade(IdbCreateObjectStore(meta, Head(schemas)), Tail(schemas))

\* The version createDatabase asks idb.open for: the one it was passed.
createDatabase_version(version) == version

\* The schemas a caller passes: one store, two stores, and one store named twice.
Schemas ==
  {<<Schema("b", FALSE)>>, <<Schema("a", TRUE), Schema("b", FALSE)>>,
   <<Schema("b", FALSE), Schema("b", FALSE)>>}

\* static createDatabase(dbName, version, schemas):
\* return idb.open(dbName, version, upgradeDB => ...).then(db => db.close())
createDatabase(d, version, schemas) ==
  LET r == Len(opens) + 1
  IN /\ host = "indexedDB"
     /\ NextDbSlot(d)
     /\ Len(opens) < MaxOpens
     /\ opens' = Append(opens, IdbRequest(createDatabase_version(version), schemas))
     /\ dcalls' = [dcalls EXCEPT ![d] =
          [DbCall("createDatabase", "-") EXCEPT !.st = "waitConn", !.p = r, !.val = version,
                                                !.schemas = schemas]]
     /\ waiting' = Append(waiting, <<"d", d>>)
     /\ UNCHANGED <<dbmeta, stores, txq, calls, storeVars, db_dbPromise, dbhist, last, ref>>

\* The callback of createDatabase: db => db.close()
createDatabase_then(d) ==
  LET call == dcalls[d]
  IN /\ call.op = "createDatabase" /\ call.st = "waitConn"
     /\ PState(call.p) # "pending"
     /\ DbTurn(d)
     /\ IF PState(call.p) = "rejected"
        THEN /\ dcalls' = [dcalls EXCEPT ![d] =
                  DbSettled(call, "rejected", opens[call.p].err, call.val)]
             /\ opens' = opens
        ELSE /\ dcalls' = [dcalls EXCEPT ![d] = DbSettled(call, "resolved", "", call.val)]
             /\ opens' = IdbClose(opens, call.p)
     /\ UNCHANGED <<dbmeta, stores, txq, calls, storeVars, db_dbPromise, dbhist, last, ref>>

\* static get hasSupport(): if (!('indexedDB' in window)) { warn; return false; }
\* return true;  -- in a host without a global window the name window has no
\* binding and its evaluation throws.
hasSupport(h) ==
  CASE h = "none" -> [out |-> "thrown", err |-> ReferenceError, val |-> 0]
    [] h = "window" -> [out |-> "returned", err |-> "", val |-> 0]
    [] OTHER -> [out |-> "returned", err |-> "", val |-> 1]

DB_hasSupport(d) ==
  LET r == hasSupport(host)
  IN /\ NextDbSlot(d)
     /\ dcalls' = [dcalls EXCEPT ![d] = DbSettled(DbCall("hasSupport", "-"), r.out, r.err, r.val)]
     /\ UNCHANGED <<engineVars, calls, storeVars, db_dbPromise, dbhist, last, ref, waiting>>

(***************************************************************************)
(* DB of idb-store.js (lines 151-350): the constructor opens the           *)
(* connection, and the callback open gives to then attaches one Store per  *)
(* object store to the instance.                                           *)
(*   db_props.made    an instance has been constructed;                    *)
(*   db_props.names   the properties this[name] that hold a Store;         *)
(*   db_props.reqs    the open requests issued by open();                  *)
(*   db_props.done    those whose callback has run.                        *)
(* store_dbPromise is the promise the attached Stores were built with.     *)
(***************************************************************************)
\* open(dbName, version): const dbPromise = idb.open(dbName, version).then(db => ...);
\* this.dbPromise = dbPromise; return dbPromise;
StoreDB_open(version) ==
  LET r == Len(opens) + 1
  IN /\ opens' = Append(opens, IdbRequest(version, << >>))
     /\ db_dbPromise' = OpenThen(r)
     /\ db_props' = [db_props EXCEPT !.made = TRUE, !.reqs = @ \cup {r}]
     /\ dbhist' = [closed |-> FALSE, opened |-> r, re |-> FALSE]

\* constructor(dbName, version) { this.dbPromise = null; this.open(dbName, version); }
StoreDB_constructor(version) ==
  /\ host = "indexedDB"
  /\ ~db_props.made
  /\ Len(opens) < MaxOpens
  /\ StoreDB_open(version)
  /\ UNCHANGED <<host, dbmeta, stores, txq, calls, store_dbPromise, dcalls, last, ref, waiting>>

\* The callback of open: db => { for each name of db.objectStoreNames:
\* this[name] = new Store(name, this.dbPromise); }  -- this.dbPromise is by then
\* the promise then returned; the callback returns nothing.
StoreDB_open_then(i) ==
  /\ i \in db_props.reqs \ db_props.done
  /\ opens[i].p = "resolved"
  /\ db_props' = [db_props EXCEPT
       !.names = @ \cup {dbmeta.names[j] : j \in 1..Len(dbmeta.names)},
       !.done = @ \cup {i}]
  /\ store_dbPromise' = IF dbmeta.names = << >> THEN store_dbPromise ELSE db_dbPromise
  /\ UNCHANGED <<host, engineVars, calls, dbVars, last, ref, waiting>>

\* db[s].<op>(args): a property the instance does not have is undefined, and the
\* call of a method on it throws.
StoreDB_store(c, s, a) ==
  /\ db_props.made
  /\ NextSlot(c)
  /\ IF s \in db_props.names
     THEN StartCall(c, "Store", s, a, store_dbPromise)
     ELSE Throw(c, NewCall("Store", s, a, 0), TypeError)
  /\ UNCHANGED <<engineVars, storeVars, dbVars>>

\* get name() / get version() / get objectStoreNames():
\* return this.dbPromise.then(db => db.<g>)
StoreDB_get(d, g) ==
  /\ db_props.made
  /\ NextDbSlot(d)
  /\ dcalls' = [dcalls EXCEPT ![d] = DbThen(DbCall(g, "-"), db_dbPromise)]
  /\ DbRegister(d, db_dbPromise)
  /\ UNCHANGED <<engineVars, calls, storeVars, db_dbPromise, dbhist, last, ref>>

\* The callback db => db.<g>: the read of a property of undefined throws.
StoreDB_get_then(d) ==
  LET call == dcalls[d]
  IN /\ call.op \in Getters /\ call.st = "waitConn"
     /\ PState(call.p) # "pending"
     /\ DbTurn(d)
     /\ dcalls' = [dcalls EXCEPT ![d] =
                     IF PState(call.p) = "rejected"
                     THEN DbSettled(call, "rejected", OpenError, 0)
                     ELSE IF PValue(call.p) = 0 THEN DbSettled(call, "rejected", TypeError, 0)
                     ELSE DbSettled(call, "resolved", "", PValue(call.p))]
     /\ UNCHANGED <<engineVars, calls, storeVars, db_dbPromise, dbhist, last, ref>>

\* onversionchange() / onclose() / onerror() / onabort():
\* new Promise(resolve => this.dbPromise.then(db => { db._db.on<ev> = resolve-it; }))
StoreDB_on(d, ev) ==
  /\ db_props.made
  /\ NextDbSlot(d)
  /\ dcalls' = [dcalls EXCEPT ![d] = DbThen(DbCall("on", ev), db_dbPromise)]
  /\ DbRegister(d, db_dbPromise)
  /\ UNCHANGED <<engineVars, calls, storeVars, db_dbPromise, dbhist, last, ref>>

\* The callback sets the connection's handler, replacing the one set before; when
\* it throws, or dbPromise rejected, nothing settles the promise the method
\* returned.
StoreDB_on_then(d) ==
  LET call == dcalls[d]
      set == PState(call.p) = "resolved" /\ PValue(call.p) # 0
  IN /\ call.op = "on" /\ call.st = "waitConn"
     /\ PState(call.p) # "pending"
     /\ DbTurn(d)
     /\ dcalls' = [e \in DbSlots |->
          IF e = d
          THEN IF set THEN [call EXCEPT !.st = "subscribed", !.live = TRUE]
               ELSE [call EXCEPT !.st = "lost"]
          ELSE IF set /\ dcalls[e].op = "on" /\ dcalls[e].p = call.p /\ dcalls[e].arg = call.arg
               THEN [dcalls[e] EXCEPT !.live = FALSE]
               ELSE dcalls[e]]
     /\ UNCHANGED <<engineVars, calls, storeVars, db_dbPromise, dbhist, last, ref>>

(***************************************************************************)
(* DB of unnamed/part_002 (lines 119-204), and of unnamed/part_001 (lines  *)
(* 535-568) whose open has the same text: the constructor takes the schema *)
(* descriptors, creates the stores in the upgrade callback of its open     *)
(* request, and attaches one Store per object store, built on the promise  *)
(* of that request.                                                        *)
(***************************************************************************)
\* store = upgradeDB.createObjectStore(storeData.create.name): the name alone,
\* so the store is created with the default options.
SchemaDB_create(schema) == Schema(schema.name, FALSE)

\* constructor(dbName, version, storesData): this.dbPromise = idb.open(dbName,
\* version, upgradeDB => { storesData.forEach(storeData => { create the store
\* if the database has none of that name }) }); this.dbPromise.then(db => ...)
SchemaDB_constructor(d, version, schemas) ==
  LET r == Len(opens) + 1
  IN /\ host = "indexedDB"
     /\ ~db_props.made
     /\ NextDbSlot(d)
     /\ Len(opens) < MaxOpens
     /\ opens' = Append(opens, IdbRequest(version,
                       [j \in 1..Len(schemas) |-> SchemaDB_create(schemas[j])]))
     /\ db_dbPromise' = r
     /\ db_props' = [db_props EXCEPT !.made = TRUE, !.reqs = @ \cup {r}]
     /\ dbhist' = [closed |-> FALSE, opened |-> r, re |-> FALSE]
     /\ dcalls' = [dcalls EXCEPT ![d] =
          [DbCall("newSchema", "-") EXCEPT !.st = "waitConn", !.p = r, !.val = version,
                                           !.schemas = schemas]]
     /\ waiting' = Append(waiting, <<"d", d>>)
     /\ UNCHANGED <<host, dbmeta, stores, txq, calls, store_dbPromise, last, ref>>

\* The callback: db => { for each name of db.objectStoreNames:
\* this[name] = new Store(name, this.dbPromise); }
SchemaDB_then(d) ==
  LET call == dcalls[d]
  IN /\ call.op = "newSchema" /\ call.st = "waitConn"
     /\ PState(call.p) # "pending"
     /\ DbTurn(d)
     /\ IF PState(call.p) = "rejected"
        THEN /\ dcalls' = [dcalls EXCEPT ![d] =
                  DbSettled(call, "rejected", opens[call.p].err, call.val)]
             /\ UNCHANGED <<db_props, store_dbPromise>>
        ELSE /\ dcalls' = [dcalls EXCEPT ![d] = DbSettled(call, "resolved", "", call.val)]
             /\ db_props' = [db_props EXCEPT
                  !.names = @ \cup {dbmeta.names[j] : j \in 1..Len(dbmeta.names)},
                  !.done = @ \cup {call.p}]
             /\ store_dbPromise' = IF dbmeta.names = << >> THEN store_dbPromise ELSE call.p
     /\ UNCHANGED <<host, engineVars, calls, db_dbPromise, dbhist, last, ref>>

(***************************************************************************)
(* The constructor of DB of store-repository.js (lines 172-176).  The      *)
(* class defines name, version and objectStoreNames as accessors with a    *)
(* getter and no setter, and class code is strict: an assignment to such   *)
(* a property of this throws.                                              *)
(***************************************************************************)
\* this.dbName = dbName; this.version = version; this.dbPromise = null;
DB_fields == <<"dbName", "version", "dbPromise">>

\* The assignments made before one throws, or all of them.
DB_assigned ==
  IF \E i \in 1..Len(DB_fields) : DB_fields[i] \in Getters
  THEN SubSeq(DB_fields, 1, (CHOOSE i \in 1..Len(DB_fields) :
                               /\ DB_fields[i] \in Getters
                               /\ \A j \in 1..(i - 1) : DB_fields[j] \notin Getters) - 1)
  ELSE DB_fields

\* new DB(dbName, version)
DB_constructor(d, version) ==
  /\ NextDbSlot(d)
  /\ dcalls' = [dcalls EXCEPT ![d] =
       IF DB_assigned = DB_fields
       THEN DbSettled(DbCall("new", "-"), "returned", "", version)
       ELSE DbSettled(DbCall("new", "-"), "thrown", TypeError, version)]
  /\ UNCHANGED <<engineVars, calls, storeVars, db_dbPromise, dbhist, last, ref, waiting>>

(***************************************************************************)
(* The engine's own steps.                                                 *)
(***************************************************************************)
\* The upgrade of an open request: the database at the version asked for, after
\* the upgrade callback; err is what the callback threw.
EngineUpgrade(i) == createDatabase_upgrade([dbmeta EXCEPT !.version = opens[i].v], opens[i].up)

\* The engine takes up the open requests on a database in the order they came.
EngineNext(i) == \A j \in 1..(i - 1) : opens[j].p # "pending"

\* An open request succeeds: its promise resolves with a new open connection.  A
\* request for a higher version (any version, when there is no database) first
\* upgrades, once no other connection is open.
EngineOpenDone(i) ==
  /\ opens[i].p = "pending"
  /\ EngineNext(i)
  /\ opens[i].v >= dbmeta.version
  /\ IF opens[i].v > dbmeta.version
     THEN OpenConns = {} /\ EngineUpgrade(i).err = "" /\ dbmeta' = EngineUpgrade(i).meta
     ELSE dbmeta' = dbmeta
  /\ opens' = [opens EXCEPT ![i].p = "resolved", ![i].conn = "open"]
  /\ UNCHANGED <<stores, txq, calls, storeVars, dbVars, last, ref, waiting>>

\* An open request fails: its promise rejects, with a VersionError for a version
\* below the database's, an AbortError when the upgrade callback threw.
EngineOpenFail(i) ==
  /\ opens[i].p = "pending"
  /\ EngineNext(i)
  /\ opens' = [opens EXCEPT
       ![i].p = "rejected",
       ![i].err = IF opens[i].v < dbmeta.version THEN VersionError
                  ELSE IF opens[i].v > dbmeta.version /\ EngineUpgrade(i).err # ""
                  THEN AbortError ELSE OpenError]
  /\ UNCHANGED <<dbmeta, stores, txq, calls, storeVars, dbVars, last, ref, waiting>>

\* Transactions whose scopes overlap run in creation order unless both only read.
Conflict(c, d) ==
  /\ calls[c].scope \cap calls[d].scope # {}
  /\ (calls[c].mode = "readwrite" \/ calls[d].mode = "readwrite")

MayRun(c) ==
  \A i \in 1..Len(txq) : (i < IndexOf(txq, c) /\ txq[i] # c) => ~Conflict(c, txq[i])

\* A request the transaction's mode does not allow fails, and the transaction
\* aborts with it.
Allowed(c) == calls[c].mode = "readwrite" \/ calls[c].req.kind \notin {"put", "delete", "clear"}

\* The request of a transaction succeeds.
EngineRequest(c) ==
  /\ calls[c].tx = "active"
  /\ MayRun(c)
  /\ Allowed(c)
  /\ calls' = [calls EXCEPT ![c].tx = "reqdone", ![c].reqDone = TRUE,
                            ![c].res = IdbAnswer(calls[c].store, calls[c].req).res,
                            ![c].list = IdbAnswer(calls[c].store, calls[c].req).list]
  /\ UNCHANGED <<engineVars, storeVars, dbVars, last, ref, waiting>>

\* A transaction whose request succeeded commits: its write reaches the store.
EngineCommit(c) ==
  LET s == calls[c].store
      r == IF calls[c].req.kind = "put" THEN [calls[c].req EXCEPT !.key = calls[c].res]
           ELSE calls[c].req
  IN /\ calls[c].tx = "reqdone"
     /\ calls' = [calls EXCEPT ![c].tx = "committed", ![c].had = IdbBefore(stores[s], r)]
     /\ stores' = [stores EXCEPT ![s] = IdbApply(@, r)]
     /\ dbmeta' = [dbmeta EXCEPT !.gen[s] = IdbGenerator(s, r)]
     /\ txq' = Remove(txq, c)
     /\ UNCHANGED <<opens, storeVars, dbVars, last, ref, waiting>>

\* The engine aborts a live transaction: none of its writes reaches the store.
EngineAbort(c) ==
  /\ calls[c].tx \in {"active", "reqdone"}
  /\ calls' = [calls EXCEPT ![c].tx = "aborted"]
  /\ txq' = Remove(txq, c)
  /\ UNCHANGED <<dbmeta, stores, opens, storeVars, dbVars, last, ref, waiting>>

\* A call of on<ev> whose callback has run on the promise of request i.
Subscriber(d, i, ev) ==
  /\ dcalls[d].op = "on" /\ dcalls[d].arg = ev
  /\ dcalls[d].st \in {"subscribed", "lost"}
  /\ dcalls[d].p \in {i, OpenThen(i)}

\* An event fires on an open connection: the handler set on it, if it is still
\* the one a pending subscription set, resolves that subscription's promise; the
\* promise of a subscription whose handler is not on the connection stays
\* pending.  A close event is the engine closing the connection.
EngineEvent(i, ev) ==
  /\ ConnState(i) = "open"
  /\ \E d \in DbSlots : Subscriber(d, i, ev)
  /\ dcalls' = [d \in DbSlots |->
       IF Subscriber(d, i, ev)
       THEN IF dcalls[d].st = "subscribed" /\ dcalls[d].live
            THEN DbSettled(dcalls[d], "resolved", "", i)
            ELSE [dcalls[d] EXCEPT !.st = "missed"]
       ELSE dcalls[d]]
  /\ opens' = IF ev = "close" THEN IdbClose(opens, i) ELSE opens
  /\ UNCHANGED <<dbmeta, stores, txq, calls, storeVars, db_dbPromise, dbhist, last, ref, waiting>>

EngineTx ==
  \E c \in Slots : EngineRequest(c) \/ EngineCommit(c) \/ EngineAbort(c)

EngineOpen ==
  \E i \in 1..Len(opens) : EngineOpenDone(i) \/ EngineOpenFail(i)

(***************************************************************************)
(* Initial states.                                                         *)
(***************************************************************************)

\* The database at version 1 with the object stores names, none with a key
\* generator.
Created(names) ==
  [version |-> 1, names |-> names, auto |-> {}, gen |-> [s \in StoreNames |-> 0]]

NoProps == [made |-> FALSE, names |-> {}, reqs |-> {}, done |-> {}]

InitCommon ==
  /\ host = "indexedDB"
  /\ db_props = NoProps
  /\ stores = [s \in StoreNames |-> [k \in Keys |-> 0]]
  /\ txq = << >>
  /\ calls = [c \in Slots |-> IdleCall]
  /\ dcalls = [d \in DbSlots |-> IdleDbCall]
  /\ dbhist = NoHistory
  /\ waiting = << >>
  /\ last = [s \in StoreNames |-> [k \in Keys |-> [kind |-> "init", val |-> 0, prev |-> 0]]]
  /\ ref = [recs |-> stores, seq |-> TRUE]

\* A Store of idb-store.js built on the promise of an open request.
InitStore ==
  /\ InitCommon
  /\ dbmeta = Created(<<"a", "b">>)
  /\ opens = <<IdbRequest(1, << >>)>>
  /\ store_dbPromise = 1
  /\ db_dbPromise = 0

NextStore ==
  \/ \E c \in Slots, a \in Args : Store_call(c, "a", a)
  \/ \E c \in Slots : Store_then(c)
  \/ \E c \in Slots : Store_settle(c)
  \/ EngineOpen
  \/ EngineTx

SpecStore == InitStore /\ [][NextStore]_vars

\* A DB of store-repository.js and its callers.
InitDB ==
  /\ InitCommon
  /\ dbmeta = Created(<<"a", "b">>)
  /\ opens = << >>
  /\ store_dbPromise = 0
  /\ db_dbPromise = 0

NextDB ==
  \/ \E d \in DbSlots : DB_open(d)
  \/ \E d \in DbSlots : DB_close(d)
  \/ \E d \in DbSlots : DB_close_then(d)
  \/ \E d \in DbSlots : DB_close_done(d)
  \/ \E d \in DbSlots, g \in Getters : DB_get(d, g)
  \/ \E d \in DbSlots : DB_get_then(d)
  \/ \E d \in DbSlots, s \in StoreNames : DB_transaction(d, s)
  \/ \E d \in DbSlots : DB_transaction_then(d)
  \/ \E d \in DbSlots, ev \in Events : DB_on(d, ev)
  \/ \E d \in DbSlots : DB_on_then(d)
  \/ \E i \in 1..Len(opens), ev \in Events : EngineEvent(i, ev)
  \/ EngineOpen

SpecDB == InitDB /\ [][NextDB]_vars

\* The same, with the scheduling the host gives: the engine answers every open
\* request and a callback whose promise has settled is run.
FairDB ==
  /\ WF_vars(EngineOpen)
  /\ \A d \in DbSlots :
       /\ WF_vars(DB_close_then(d)) /\ WF_vars(DB_close_done(d))
       /\ WF_vars(DB_get_then(d)) /\ WF_vars(DB_transaction_then(d))
       /\ WF_vars(DB_on_then(d))

SpecDBFair == SpecDB /\ FairDB

\* A DB of store-repository.js, the accessors bound to it, and one caller of
\* open() and close() that awaits each call before the next.
ArgsRepo == {a \in Args : a.key <= 1 /\ a.val <= 1}

NextRepo ==
  \/ \E c \in Slots, a \in ArgsRepo : Repo_call(c, "a", a)
  \/ \E c \in Slots : Repo_then(c)
  \/ \E c \in Slots : Repo_settle(c)
  \/ \E c \in Slots, a \in ArgsRepo : IStore_call(c, "a", a)
  \/ \E c \in Slots : IStore_then(c)
  \/ \E c \in Slots : IStore_settle(c)
  \/ DB_open(1)
  \/ DB_close(1)
  \/ DB_close_then(1)
  \/ DB_close_done(1)
  \/ EngineOpen
  \/ EngineTx

SpecRepo == InitDB /\ [][NextRepo]_vars

\* The Store of unnamed/part_001 bound to a DB of store-repository.js whose
\* database has the object store "a" only; a Store may be bound to "b", which
\* the database does not have.
InitWrap ==
  /\ InitCommon
  /\ dbmeta = Created(<<"a">>)
  /\ opens = << >>
  /\ store_dbPromise = 0
  /\ db_dbPromise = 0

NextWrap ==
  \/ \E c \in Slots, s \in StoreNames, a \in ArgsRepo : IStore_call(c, s, a)
  \/ \E c \in Slots : IStore_then(c)
  \/ \E c \in Slots : IStore_settle(c)
  \/ DB_open(1)
  \/ DB_close(1)
  \/ DB_close_then(1)
  \/ DB_close_done(1)
  \/ EngineOpen
  \/ EngineTx

SpecWrap == InitWrap /\ [][NextWrap]_vars

\* The same Store, its set, getAllKeys, getAll and count called with a key range
\* and a count.
ArgsSet == {a \in ArgsKeyed : a.op = "set"}

NextQuery ==
  \/ \E c \in Slots, a \in ArgsSet \cup ArgsQuery : Store_call(c, "a", a)
  \/ \E c \in Slots : Store_then(c)
  \/ \E c \in Slots : Store_settle(c)
  \/ EngineOpen
  \/ EngineTx

SpecQuery == InitStore /\ [][NextQuery]_vars

\* The accessors on an object store with a key generator, as the README
\* creates it: set called without a key, then getAllKeys and count.
ArgsAuto ==
  [op : {"set"}, key : {0}, val : Vals, q : {NoQuery}, n : {0}]
  \cup {a \in ArgsAll : a.op \in {"getAllKeys", "count"}}

InitAuto ==
  /\ InitCommon
  /\ dbmeta = [Created(<<"a", "b">>) EXCEPT !.auto = {"a"}]
  /\ opens = <<IdbRequest(1, << >>)>>
  /\ store_dbPromise = 1
  /\ db_dbPromise = 0

\* The generator of store s has a key left within the bound for one more set.
CanGenerate(s, a) ==
  (a.op = "set" /\ a.key = 0) =>
    dbmeta.gen[s] + Cardinality({c \in Slots : /\ calls[c].tx \in {"active", "reqdone"}
                                              /\ calls[c].store = s
                                              /\ calls[c].req.kind = "put"})
      + Cardinality({c \in Slots : calls[c].st = "waitConn" /\ calls[c].op = "set"}) < MaxKey

NextAuto ==
  \/ \E c \in Slots, a \in ArgsAuto : CanGenerate("a", a) /\ Store_call(c, "a", a)
  \/ \E c \in Slots : Store_then(c)
  \/ \E c \in Slots : Store_settle(c)
  \/ \E c \in Slots, a \in ArgsAuto : CanGenerate("a", a) /\ IStore_call(c, "a", a)
  \/ \E c \in Slots : IStore_then(c)
  \/ \E c \in Slots : IStore_settle(c)
  \/ EngineOpen
  \/ EngineTx

SpecAuto == InitAuto /\ [][NextAuto]_vars

\* One object store reached through a Store of idb-store.js and through a
\* Store of unnamed/part_001 bound to a DB.
NextSerial ==
  \/ \E c \in Slots, a \in Args : Store_call(c, "a", a)
  \/ \E c \in Slots : Store_then(c)
  \/ \E c \in Slots : Store_settle(c)
  \/ \E c \in Slots, a \in Args : IStore_call(c, "a", a)
  \/ \E c \in Slots : IStore_then(c)
  \/ \E c \in Slots : IStore_settle(c)
  \/ EngineOpen
  \/ EngineTx

SpecSerial == InitStore /\ [][NextSerial]_vars

\* The writes of a Store of idb-store.js bound to one object store and of a
\* Store of unnamed/part_001 bound to the other object store of the database.
ArgsWrite == {a \in ArgsKeyed : a.op \in WriteOps}

NextFrame ==
  \/ \E c \in Slots, a \in ArgsWrite : Store_call(c, "a", a)
  \/ \E c \in Slots : Store_then(c)
  \/ \E c \in Slots : Store_settle(c)
  \/ \E c \in Slots, a \in ArgsWrite : IStore_call(c, "b", a)
  \/ \E c \in Slots : IStore_then(c)
  \/ \E c \in Slots : IStore_settle(c)
  \/ EngineOpen
  \/ EngineTx

SpecFrame == InitStore /\ [][NextFrame]_vars

\* The Store of unnamed/part_001 called with an index name, on records that
\* calls without one have written.
NextIndex ==
  \/ \E c \in Slots, a \in Args : IStore_call(c, "a", a)
  \/ \E c \in Slots : IStore_then(c)
  \/ \E c \in Slots : IStore_settle(c)
  \/ \E c \in Slots, a \in Args : IStoreIx_call(c, "a", a)
  \/ \E c \in Slots : IStoreIx_then(c)
  \/ \E c \in Slots : IStoreIx_settle(c)
  \/ EngineOpen
  \/ EngineTx

SpecIndex == InitStore /\ [][NextIndex]_vars

\* The same, with the scheduling the host gives: a callback whose promise has
\* settled is run, the engine answers every open request, and every live
\* transaction ends, by a commit or by an abort.
FairSerial ==
  /\ \A c \in Slots :
       /\ WF_vars(Store_then(c)) /\ WF_vars(Store_settle(c))
       /\ WF_vars(IStore_then(c)) /\ WF_vars(IStore_settle(c))
       /\ WF_vars(EngineRequest(c) \/ EngineCommit(c) \/ EngineAbort(c))
  /\ WF_vars(EngineOpen)

SpecSerialFair == SpecSerial /\ FairSerial

\* The statics and the constructors, called in any host on a database that does
\* not exist yet or that an earlier run left behind.
Hosts == {"none", "window", "indexedDB"}

Absent == [Created(<< >>) EXCEPT !.version = 0]

NoRecords == [s \in StoreNames |-> [k \in Keys |-> 0]]

PriorStates ==
  {[meta |-> Absent, recs |-> NoRecords],
   [meta |-> Created(<<"a">>), recs |-> [NoRecords EXCEPT !["a"][1] = 1]],
   [meta |-> Created(<<"a", "b">>), recs |-> NoRecords]}

InitPrior ==
  /\ \E prior \in PriorStates : dbmeta = prior.meta /\ stores = prior.recs
  /\ opens = << >>
  /\ txq = << >>
  /\ calls = [c \in Slots |-> IdleCall]
  /\ dcalls = [d \in DbSlots |-> IdleDbCall]
  /\ store_dbPromise = 0
  /\ db_props = NoProps
  /\ db_dbPromise = 0
  /\ dbhist = NoHistory
  /\ waiting = << >>
  /\ last = [s \in StoreNames |-> [k \in Keys |-> Unknown]]
  /\ ref = [recs |-> stores, seq |-> TRUE]

InitStatic == host \in Hosts /\ InitPrior

InitUsage == host = "indexedDB" /\ InitPrior

\* The statics of DB and the constructor of DB of store-repository.js.
NextStatic ==
  \/ \E d \in DbSlots, v \in Versions, schemas \in Schemas : createDatabase(d, v, schemas)
  \/ \E d \in DbSlots : createDatabase_then(d)
  \/ \E d \in DbSlots : DB_hasSupport(d)
  \/ \E d \in DbSlots, v \in Versions : DB_constructor(d, v)
  \/ EngineOpen

SpecStatic == InitStatic /\ [][NextStatic]_vars

\* The schemas and the accessor calls of the README's usage.
UsageSchemas == {<<Schema("a", TRUE), Schema("b", FALSE)>>}

ArgsUsage == {a \in ArgsRepo : a.op \in {"set", "getAllKeys"} /\ a.val = 1}

\* DB of idb-store.js as its README uses it: createDatabase, new DB, then the
\* accessors db[store] and the getters.
NextUsage ==
  \/ \E d \in DbSlots, v \in Versions, schemas \in UsageSchemas :
       ~db_props.made /\ createDatabase(d, v, schemas)
  \/ \E d \in DbSlots : createDatabase_then(d)
  \/ \E v \in Versions : StoreDB_constructor(v)
  \/ \E i \in 1..Len(opens) : StoreDB_open_then(i)
  \/ \E c \in Slots, s \in StoreNames, a \in ArgsUsage : StoreDB_store(c, s, a)
  \/ \E c \in Slots : Store_then(c)
  \/ \E d \in DbSlots, g \in Getters : StoreDB_get(d, g)
  \/ \E d \in DbSlots : StoreDB_get_then(d)
  \/ EngineOpen

SpecUsage == InitUsage /\ [][NextUsage]_vars

\* The stores created from schema descriptors: by createDatabase, and by the
\* constructor of the DB of unnamed/part_002.
NextSchema ==
  \/ \E d \in DbSlots, v \in Versions, schemas \in Schemas : createDatabase(d, v, schemas)
  \/ \E d \in DbSlots : createDatabase_then(d)
  \/ \E d \in DbSlots, v \in Versions, schemas \in Schemas : SchemaDB_constructor(d, v, schemas)
  \/ \E d \in DbSlots : SchemaDB_then(d)
  \/ EngineOpen

SpecSchema == InitUsage /\ [][NextSchema]_vars

\* DB of idb-store.js and the subscriptions to the events of its connection.
NextEvents ==
  \/ \E v \in Versions : StoreDB_constructor(v)
  \/ \E i \in 1..Len(opens) : StoreDB_open_then(i)
  \/ \E d \in DbSlots, ev \in Events : StoreDB_on(d, ev)
  \/ \E d \in DbSlots : StoreDB_on_then(d)
  \/ \E i \in 1..Len(opens), ev \in Events : EngineEvent(i, ev)
  \/ EngineOpen

SpecEvents == InitUsage /\ [][NextEvents]_vars

(***************************************************************************)
(* Properties of the accessors.                                            *)
(***************************************************************************)
Settled(c) == calls[c].st = "settled"

Resolved(c) == calls[c].st = "settled" /\ calls[c].out = "resolved"

\* C6: the promise of an accessor call that opened a transaction resolves only
\* once that transaction has committed, and rejects when it aborted.
C6_SettlesWithTransaction ==
  \A c \in Slots :
    (Settled(c) /\ calls[c].txAt # "none") =>
      /\ calls[c].out = "resolved" => calls[c].txAt = "committed"
      /\ calls[c].txAt = "aborted" => calls[c].out = "rejected"

\* C7: a get(k) that follows a resolved set(v, k), with no other write of k in
\* between, resolves with v, whatever k held before.
C7_SetThenGet ==
  \A c \in Slots :
    (Resolved(c) /\ calls[c].op = "get" /\ calls[c].expect.kind = "set") =>
      calls[c].value = calls[c].expect.val

\* A get resolved after a set that replaced a different value under the same key.
C7_Witness ==
  \E c \in Slots :
    /\ Resolved(c) /\ calls[c].op = "get" /\ calls[c].expect.kind = "set"
    /\ calls[c].expect.prev \notin {0, calls[c].expect.val}
    /\ calls[c].value = calls[c].expect.val

\* C8: a get(k) that follows a resolved delete(k), with no other write of k in
\* between, resolves with undefined; and a delete whose transaction committed
\* resolves, also when the key held no record.
C8_DeleteThenGet ==
  \A c \in Slots :
    /\ (Resolved(c) /\ calls[c].op = "get" /\ calls[c].expect.kind = "deleted") =>
         calls[c].value = 0
    /\ (Settled(c) /\ calls[c].op = "delete" /\ calls[c].txAt = "committed") =>
         calls[c].out = "resolved"

\* A get resolved with undefined after the delete of a key that held a record.
C8_Witness ==
  \E c \in Slots :
    /\ Resolved(c) /\ calls[c].op = "get" /\ calls[c].expect.kind = "deleted"
    /\ calls[c].expect.prev # 0
    /\ calls[c].value = 0

\* C9: a count() that follows a resolved clear(), with no write in between,
\* resolves with 0, and a getAllKeys() with the empty list.
C9_ClearThenEmpty ==
  \A c \in Slots :
    (Resolved(c) /\ calls[c].expect.kind = "cleared") =>
      /\ calls[c].op = "count" => calls[c].value = 0
      /\ calls[c].op = "getAllKeys" => calls[c].vlist = << >>

\* A count resolved with 0 after the clear of a store that held records.
C9_Witness ==
  \E c \in Slots :
    /\ Resolved(c) /\ calls[c].op = "count" /\ calls[c].expect.kind = "cleared"
    /\ calls[c].expect.prev > 0
    /\ calls[c].value = 0

\* C10: getAllKeys(query, count) and getAll(query, count) resolve with the keys,
\* respectively the values, of the records in the range, in ascending key order,
\* and with at most count of them when a count is given.
C10_RangeAndLimit ==
  \A c \in Slots :
    (Resolved(c) /\ calls[c].op \in {"getAllKeys", "getAll"}) =>
      LET ks == Take(SetToSeq(KeysIn(calls[c].store, calls[c].q)), calls[c].n)
      IN IF calls[c].op = "getAllKeys"
         THEN calls[c].vlist = ks
         ELSE calls[c].vlist = [i \in 1..Len(ks) |-> stores[calls[c].store][ks[i]]]

\* C13 as stated: on a store with a key generator a set(value) without a key
\* resolves with the key generated for the record; and a getAllKeys() called
\* when two such sets have resolved on the new store resolves with [1, 2], a
\* count() with 2.
C13_SetResolvesWithKey ==
  \A c \in Slots :
    /\ (Resolved(c) /\ calls[c].op = "set" /\ calls[c].key = 0) =>
         calls[c].res \in Keys /\ calls[c].value = calls[c].res
    /\ (Resolved(c) /\ calls[c].expect.kind = "sets" /\ calls[c].expect.val = 2) =>
         /\ calls[c].op = "getAllKeys" => calls[c].vlist = <<1, 2>>
         /\ calls[c].op = "count" => calls[c].value = 2

C22_ScopeAndMode ==
  \A c \in Slots :
    /\ calls[c].txs <= 1
    /\ calls[c].tx # "none" =>
         /\ calls[c].txs = 1
         /\ calls[c].scope = {calls[c].store}
         /\ calls[c].op \in {"get", "getAllKeys", "getAll", "count"} => calls[c].mode = "readonly"
         /\ calls[c].op \in {"set", "delete", "clear"} => calls[c].mode = "readwrite"

\* A count that resolved from a readonly transaction over its store.
C22_Witness ==
  \E c \in Slots :
    /\ Resolved(c) /\ calls[c].op = "count" /\ calls[c].tx = "committed"
    /\ calls[c].mode = "readonly" /\ calls[c].scope = {calls[c].store}
    /\ calls[c].txs = 1

\* C25: a method of the Store of unnamed/part_001 called with an index name
\* places its request on that index, and a delete(key, indexName) whose open
\* request succeeded and whose transaction did not abort resolves, and once it
\* has resolved no record of the store has key as its index key.
C25_IndexNameHonoured ==
  \A c \in Slots :
    calls[c].cls = "IStoreIx" =>
      /\ calls[c].st = "inTx" => OnIndex(calls[c].req)
      /\ (/\ calls[c].op = "delete" /\ Settled(c)
          /\ PState(calls[c].p) = "resolved" /\ calls[c].tx # "aborted") =>
            /\ calls[c].out = "resolved"
            /\ \A k \in Keys : stores[calls[c].store][k] # calls[c].key

\* C29: a record changes only in the step that commits the transaction of a
\* set, delete or clear on the object store of that record, and for a set or a
\* delete only the record under the key of the call: a set or delete leaves the
\* records under every other key of its store as they were, and a set, delete or
\* clear leaves the records of every other store as they were.
C29_Frame ==
  [][\A s \in StoreNames, k \in Keys :
       stores'[s][k] # stores[s][k] =>
         \E c \in Slots :
           /\ calls[c].tx = "reqdone" /\ calls'[c].tx = "committed"
           /\ calls[c].op \in WriteOps
           /\ calls[c].store = s
           /\ calls[c].op \in {"set", "delete"} =>
                k = (IF calls[c].key = 0 THEN calls[c].res ELSE calls[c].key)]_vars

\* A delete that removed a record has resolved while another key of its store
\* and the other store hold a record, the one they held when the call was made.
C29_Witness ==
  \E c \in Slots :
    /\ Resolved(c) /\ calls[c].op = "delete" /\ calls[c].txAt = "committed"
    /\ calls[c].had # 0
    /\ \E k \in Keys \ {calls[c].key} :
         /\ stores[calls[c].store][k] # 0
         /\ stores[calls[c].store][k] = calls[c].refAt[k]
    /\ \E s \in StoreNames \ {calls[c].store}, k \in Keys : stores[s][k] # 0

\* C24: every accessor call settles; a call whose open request failed, whose
\* db.transaction threw or whose transaction aborted is rejected, and a call
\* whose transaction committed is resolved.
C24_Outcome(c) ==
  /\ calls[c].out # "thrown"
  /\ (PState(calls[c].p) = "rejected" \/ calls[c].tx = "aborted") => calls[c].out = "rejected"
  /\ calls[c].tx = "committed" => calls[c].out = "resolved"

C24_EverySettles ==
  /\ [](\A c \in Slots : Settled(c) => C24_Outcome(c))
  /\ \A c \in Slots : InFlight(calls[c]) ~> Settled(c)

(***************************************************************************)
(* Properties of the connection manager.                                   *)
(***************************************************************************)
DbCalled(d) == dcalls[d].st # "idle"

DbRejectedNotOpen(d) ==
  dcalls[d].st = "settled" /\ dcalls[d].out = "rejected" /\ dcalls[d].err = ConnNotOpen

C3_CloseThenReopen ==
  \A d \in DbSlots :
    dcalls[d].op \in Getters =>
      /\ dcalls[d].at.closed => DbRejectedNotOpen(d)
      /\ (dcalls[d].at.reopened # 0 /\ dcalls[d].st = "settled") =>
           dcalls[d].out = "resolved" /\ dcalls[d].val = dcalls[d].at.reopened

\* C26: when the last open(), made by a caller or by an accessor call through
\* getConnection(), came after every call of close(), and no close() is still
\* in flight and the promise of that open() has settled, dbPromise is the
\* promise of that open().
C26_CloseInFlight == \E d \in DbSlots : dcalls[d].op = "close" /\ dcalls[d].st \in {"waitConn", "closing"}

C26_LateNullKeepsOpen ==
  (/\ dbhist.opened # 0 /\ ~C26_CloseInFlight
   /\ PState(dbhist.opened) # "pending") => db_dbPromise = dbhist.opened

\* C28: a call of onversionchange(), onabort(), onerror() or onclose() that
\* subscribes through a promise whose open request failed has its promise
\* rejected in the end.
C28_FailedOpenRejects ==
  \A d \in DbSlots :
    (dcalls[d].op = "on" /\ dcalls[d].st = "waitConn" /\ PState(dcalls[d].p) = "rejected")
      ~> (dcalls[d].op = "on" /\ dcalls[d].out = "rejected")

\* C5 as stated: every instance operation called while dbPromise is null returns
\* a promise rejected with 'Connection not open.'.
C5_NotOpenRejects ==
  \A d \in DbSlots :
    (DbCalled(d) /\ dcalls[d].op # "open" /\ dcalls[d].at.dbp = 0) => DbRejectedNotOpen(d)

(***************************************************************************)
(* Properties of the accessors bound to a DB.                              *)
(***************************************************************************)
Bound(c) == calls[c].cls \in {"Repo", "IStore"} /\ calls[c].st # "idle"

\* C27: once an accessor call whose open request succeeded has settled, resolved
\* or rejected, the connection of that request is closed.
C27_CallClosesConnection ==
  \A c \in Slots :
    (Bound(c) /\ Settled(c) /\ PState(calls[c].p) = "resolved") =>
      ConnState(calls[c].p) = "closed"

C14_Prefix(op) ==
  CASE op = "get" -> "Failed to get store record: "
    [] op = "set" -> "Failed to set store record: "
    [] op = "delete" -> "Failed to remove store record: "
    [] op = "clear" -> "Failed to clear store records: "
    [] op = "getAllKeys" -> "Failed to get store keys: "
    [] op = "getAll" -> "Failed to get all store records: "
    [] op = "count" -> "Failed to get store count: "

C14_Failed(c) ==
  \/ PState(calls[c].p) = "rejected"
  \/ calls[c].txAt \in {"none", "aborted"}

C14_FailuresPrefixed ==
  \A c \in Slots :
    (calls[c].cls = "IStore" /\ Settled(c)) =>
      /\ calls[c].out \in {"resolved", "rejected"}
      /\ C14_Failed(c) => calls[c].out = "rejected"
      /\ calls[c].out = "rejected" =>
           /\ calls[c].prefix = C14_Prefix(calls[c].op)
           /\ calls[c].err \in {OpenError, NotFoundError, AbortError}

\* A remove rejected with its prefix on the error of db.transaction, which
\* threw for a store the database does not have.
C14_Witness ==
  \E c \in Slots :
    /\ calls[c].cls = "IStore" /\ Settled(c) /\ calls[c].out = "rejected"
    /\ calls[c].op = "delete" /\ calls[c].err = NotFoundError
    /\ calls[c].prefix = "Failed to remove store record: "

(***************************************************************************)
(* Properties of the statics.                                              *)
(***************************************************************************)
Occurrences(seq, x) == Cardinality({i \in 1..Len(seq) : seq[i] = x})

DbResolved(d) == dcalls[d].st = "settled" /\ dcalls[d].out = "resolved"

\* C11 as stated: once a createDatabase(name, version, schemas) has resolved that
\* was called when the database did not exist or existed at that version, every
\* store named in schemas is in the database's objectStoreNames exactly once.
C11_SchemaCreated ==
  \A d \in DbSlots :
    (/\ dcalls[d].op = "createDatabase" /\ DbResolved(d)
     /\ dcalls[d].at.version \in {0, dcalls[d].val}) =>
      \A j \in 1..Len(opens[dcalls[d].p].up) :
        Occurrences(dbmeta.names, opens[dcalls[d].p].up[j].name) = 1

\* C12: a createDatabase whose open request the engine takes up while the
\* database is at the version passed changes nothing: the version, the object
\* stores, their key generators and all records stay as they are; the request
\* fails only for a reason of the engine's own, never by the upgrade callback;
\* and once the request has succeeded createDatabase resolves.
C12_Waits(d) == dcalls[d].op = "createDatabase" /\ dcalls[d].st = "waitConn"

C12_RecreateChangesNothing ==
  [][\A d \in DbSlots :
       LET p == dcalls[d].p
       IN /\ (/\ C12_Waits(d) /\ opens[p].p = "pending" /\ opens'[p].p # "pending"
               /\ dcalls[d].val = dbmeta.version) =>
                /\ dbmeta' = dbmeta /\ stores' = stores
                /\ opens'[p].p = "rejected" => opens'[p].err = OpenError
          /\ (C12_Waits(d) /\ dcalls'[d].st = "settled") =>
                /\ dbmeta' = dbmeta /\ stores' = stores
                /\ opens[p].p = "resolved" => dcalls'[d].out = "resolved"]_vars

\* A createDatabase called on a database that had records at the version passed
\* has resolved; the stores of its schemas were there before the call.
C12_Witness ==
  \E d \in DbSlots :
    /\ dcalls[d].op = "createDatabase" /\ DbResolved(d)
    /\ dcalls[d].at.version = dcalls[d].val
    /\ dbmeta.version = dcalls[d].val
    /\ \A j \in 1..Len(opens[dcalls[d].p].up) : InSeq(dbmeta.names, opens[dcalls[d].p].up[j].name)
    /\ \E s \in StoreNames, k \in Keys : stores[s][k] # 0

\* C23: when the open request of a createDatabase, or of a constructor that was
\* passed schema descriptors, succeeds, every object store it added to the
\* database has a key generator exactly if the options of its descriptor ask
\* for one.
C23_CreatedWithOptions ==
  [][\A d \in DbSlots :
       LET call == dcalls[d]
       IN (/\ call.op \in {"createDatabase", "newSchema"} /\ call.st = "waitConn"
           /\ opens[call.p].p = "pending" /\ opens'[call.p].p = "resolved") =>
            \A j \in 1..Len(call.schemas) :
              (/\ ~InSeq(dbmeta.names, call.schemas[j].name)
               /\ InSeq(dbmeta'.names, call.schemas[j].name)
               /\ \A i \in 1..(j - 1) : call.schemas[i].name # call.schemas[j].name) =>
                 (call.schemas[j].auto <=> call.schemas[j].name \in dbmeta'.auto)]_vars

(***************************************************************************)
(* Properties of DB of idb-store.js.                                       *)
(***************************************************************************)
\* C15: once the callback that open() gave to then has run for the request of
\* the constructor, the instance has an accessor for every object store of the
\* database, the promise the accessors hold resolves with the connection of
\* that request, and no call of an accessor fails on a connection that is
\* undefined.
C15_AccessorsOnConnection ==
  /\ \A i \in db_props.done :
       /\ \A j \in 1..Len(dbmeta.names) : dbmeta.names[j] \in db_props.names
       /\ dbmeta.names # << >> =>
            /\ PState(store_dbPromise) = "resolved"
            /\ PValue(store_dbPromise) = i
  /\ \A c \in Slots :
       (calls[c].cls = "Store" /\ calls[c].at.ran /\ Settled(c)) =>
         calls[c].err # TypeError

\* C16: a read of name, version or objectStoreNames whose promise has settled,
\* on an instance whose open request succeeded, resolved, with the value the
\* connection of that request has; it did not reject.
C16_GettersResolve ==
  \A d \in DbSlots :
    LET i == 0 - dcalls[d].p
    IN (/\ dcalls[d].op \in Getters /\ dcalls[d].st = "settled"
        /\ i \in 1..Len(opens) /\ opens[i].p = "resolved") =>
         /\ dcalls[d].out = "resolved"
         /\ dcalls[d].val = i

\* C17: with createDatabase issued first and not awaited, a set through
\* db[store] made after new DB returned and before any callback ran does not
\* throw, and when its promise settles it resolves.
C17_SyncUse ==
  \A c \in Slots :
    (/\ calls[c].cls = "Store" /\ calls[c].op = "set" /\ calls[c].st # "idle"
     /\ ~calls[c].at.ran
     /\ opens # << >> /\ opens[1].up # << >>) =>
       /\ calls[c].out # "thrown"
       /\ Settled(c) => calls[c].out = "resolved"

\* C18: no event fires on the connection while a promise returned by
\* onversionchange(), onabort(), onerror() or onclose() for that event stays
\* unresolved, and a subscription made is not replaced by a later one to the
\* same event.
C18_SubscriptionsResolve ==
  \A d \in DbSlots :
    dcalls[d].op = "on" =>
      /\ dcalls[d].st # "missed"
      /\ dcalls[d].st = "subscribed" => dcalls[d].live

\* C19: a call of DB.hasSupport() ends by returning, on every host: false on a
\* host without indexedDB, with or without a global window, and true otherwise.
C19_HasSupportReturns ==
  \A d \in DbSlots :
    dcalls[d].op = "hasSupport" =>
      /\ dcalls[d].out = "returned"
      /\ dcalls[d].val = (IF host = "indexedDB" THEN 1 ELSE 0)

\* C20: new DB(name, version) of store-repository.js ends by returning the
\* instance; it does not throw.
C20_ConstructorReturns ==
  \A d \in DbSlots :
    dcalls[d].op = "new" => dcalls[d].out = "returned"

====
